---- MODULE Spec2Model ----
(***************************************************************************)
(* A model of the saharan_cli content pipeline (main.py and the stand-alone *)
(* scripts bullets.py, banana.py, image.py): the structured-response        *)
(* parser, the bullet normaliser, the three-stage pipeline and the image    *)
(* compositor.                                                              *)
(*                                                                          *)
(* A response text is a sequence of JSON lexemes.  A string literal, a      *)
(* number, a member key with its colon, a word of prose and a run of white  *)
(* space are one lexeme each; no string literal of the model contains a     *)
(* brace, so str.find("{") and str.rfind("}") are lexeme searches.          *)
(***************************************************************************)
EXTENDS Integers, Sequences, FiniteSets, TLC

VARIABLES
    prog,           \* the script that runs: "main", "bullets", ... ("parser": none)
    pc,             \* its position
    err,            \* the exception that ended the run, "" when none
    args,           \* the command line: what each path names, what is given
    title,          \* the product title in use
    outdir_made,    \* the output directory has been created
    calls,          \* the service calls issued so far, in order
    files,          \* the output directory: file name -> content
    log,            \* the lines printed so far
    raw_text,       \* the bullets response text
    data,           \* bullets_data
    bullets,        \* the normalised bullet list
    bullets_txt,    \* the text of bullets.txt, carried into the module prompt
    module_content, \* the stripped modules response text
    mdata,          \* modules_data
    text_modules,   \* the stringified module blocks
    idx,            \* current_idx of the image loop
    gen,            \* result.data of the last image call
    parts,          \* banana.py: the parts of the response
    part_i,         \* banana.py: the part the loop is at
    image_paths,    \* banana.py: the paths save_inline_image returned
    now,            \* banana.py: int(time.time()) as last read
    text,           \* parser harness: the response text handed to the parser
    result,         \* parser harness: what the parser returned or raised
    image_path,     \* encoder harness: the file name of the asset
    image_bytes,    \* encoder harness: the bytes of the asset file
    uri             \* encoder harness: the data URI returned

mainVars == <<title, raw_text, data, bullets, bullets_txt, module_content, mdata,
              text_modules, idx, gen>>
bananaVars == <<parts, part_i, image_paths, now>>
parserVars == <<text, result>>
encoderVars == <<image_path, image_bytes, uri>>

vars == <<prog, pc, err, args, outdir_made, calls, files, log, mainVars, bananaVars,
          parserVars, encoderVars>>

-----------------------------------------------------------------------------
(* Lexemes *)

WS == " "
ProseWords == {"Sure", "done."}
kBullets == "\"bullets\":"
kModules == "\"modules\":"
kOther == "\"k\":"
kHeading == "\"heading\":"
kBenefit == "\"customer_benefit\":"
kFeature == "\"key_feature\":"
kProof == "\"proof_or_differentiator\":"
BulletKeys == {kHeading, kBenefit, kFeature, kProof}
kType == "\"type\":"
kTitle == "\"title\":"
kVisual == "\"visual_concept\":"
kHeadline == "\"headline\":"
kSubtext == "\"subtext\":"
ModuleKeys == {kType, kTitle, kVisual, kHeadline, kSubtext}
KeyToks == {kBullets, kModules, kOther} \cup BulletKeys \cup ModuleKeys
StrToks == {"\"H1\"", "\"H2\"", "\"H3\"", "\"H4\"", "\"H5\"", "\"H6\"",
            "\" H1 \"", "\"B\"", "\"F\"", "\"P\"", "\"ty\"", "\"vc\"",
            "\"hl\"", "\"st\"", "\"\""}
\* The fields of _blank_item(), the canonical placeholder bullet.
pHeading == "\"Encourages Active, Independent Play\""
pBenefit == "\"Helps children build balance, confidence, and coordination ...\""
pFeature == "\"Montessori-inspired 3-in-1 climbing set ...\""
pProof == "\"Designed to support gross motor skill development ...\""
PlaceholderToks == {pHeading, pBenefit, pFeature, pProof}
NumToks == {"1"}
NullToks == {"null"}
ScalarToks == StrToks \cup PlaceholderToks \cup NumToks \cup NullToks

\* The key a member key lexeme denotes (the lexeme itself stands for it).
KeyName(k) == k

-----------------------------------------------------------------------------
(* JSON values: one record shape for every kind, so that any two values can *)
(* be compared.  k: kind; a: the scalar's lexeme; c: the elements of an     *)
(* array or the member values of an object; n: the member keys of an object *)

ScalarKind(tok) ==
    IF tok \in StrToks \cup PlaceholderToks THEN "str" ELSE IF tok \in NumToks THEN "num" ELSE "null"

ScalarV(tok) == [k |-> ScalarKind(tok), a |-> tok, c |-> <<>>, n |-> <<>>]
ArrV(elems) == [k |-> "arr", a |-> "", c |-> elems, n |-> <<>>]
ObjV(keys, vals) == [k |-> "obj", a |-> "", c |-> vals, n |-> keys]
NoneV == ScalarV("null")

\* dict[key] = val as Python's dict does it: a repeated key keeps its first
\* position and takes the last value.
PutMember(keys, vals, key, val) ==
    IF \E i \in 1..Len(keys) : keys[i] = key
    THEN LET i == CHOOSE i \in 1..Len(keys) : keys[i] = key
         IN  <<keys, [vals EXCEPT ![i] = val]>>
    ELSE <<Append(keys, key), Append(vals, val)>>

HasKey(v, key) == v.k = "obj" /\ \E i \in 1..Len(v.n) : v.n[i] = key

\* dict.get(key, default)
DictGet(v, key, default) ==
    IF HasKey(v, key)
    THEN v.c[CHOOSE i \in 1..Len(v.n) : v.n[i] = key]
    ELSE default

-----------------------------------------------------------------------------
(* json.loads: a recursive-descent parse of the lexeme sequence *)

ParseFail == [ok |-> FALSE, v |-> NoneV, j |-> 0]
ParseOk(v, j) == [ok |-> TRUE, v |-> v, j |-> j]

RECURSIVE SkipWs(_, _)
SkipWs(t, i) == IF i <= Len(t) /\ t[i] = WS THEN SkipWs(t, i + 1) ELSE i

RECURSIVE ParseValue(_, _)
RECURSIVE ParseElems(_, _, _)
RECURSIVE ParseMembers(_, _, _, _)

ParseValue(t, i) ==
    LET p == SkipWs(t, i) IN
    IF p > Len(t) THEN ParseFail
    ELSE IF t[p] \in ScalarToks THEN ParseOk(ScalarV(t[p]), p + 1)
    ELSE IF t[p] = "[" THEN
        LET q == SkipWs(t, p + 1) IN
        IF q <= Len(t) /\ t[q] = "]" THEN ParseOk(ArrV(<<>>), q + 1)
        ELSE ParseElems(t, q, <<>>)
    ELSE IF t[p] = "{" THEN
        LET q == SkipWs(t, p + 1) IN
        IF q <= Len(t) /\ t[q] = "}" THEN ParseOk(ObjV(<<>>, <<>>), q + 1)
        ELSE ParseMembers(t, q, <<>>, <<>>)
    ELSE ParseFail

ParseElems(t, i, acc) ==
    LET r == ParseValue(t, i) IN
    IF ~r.ok THEN ParseFail
    ELSE LET q == SkipWs(t, r.j) IN
         IF q > Len(t) THEN ParseFail
         ELSE IF t[q] = "," THEN ParseElems(t, q + 1, Append(acc, r.v))
         ELSE IF t[q] = "]" THEN ParseOk(ArrV(Append(acc, r.v)), q + 1)
         ELSE ParseFail

ParseMembers(t, i, keys, vals) ==
    LET p == SkipWs(t, i) IN
    IF p > Len(t) \/ t[p] \notin KeyToks THEN ParseFail
    ELSE LET r == ParseValue(t, p + 1) IN
         IF ~r.ok THEN ParseFail
         ELSE LET kv == PutMember(keys, vals, KeyName(t[p]), r.v)
                  q == SkipWs(t, r.j)
              IN  IF q > Len(t) THEN ParseFail
                  ELSE IF t[q] = "," THEN ParseMembers(t, q + 1, kv[1], kv[2])
                  ELSE IF t[q] = "}" THEN ParseOk(ObjV(kv[1], kv[2]), q + 1)
                  ELSE ParseFail

\* json.loads(text): a value followed by nothing but white space.
JsonLoads(t) ==
    LET r == ParseValue(t, 1) IN
    IF r.ok /\ SkipWs(t, r.j) > Len(t) THEN [ok |-> TRUE, v |-> r.v]
    ELSE [ok |-> FALSE, v |-> NoneV]

\* str.find("{"): the first position holding the lexeme, 0 when there is none
\* (Python's -1).
Find(t, ch) ==
    IF \E i \in 1..Len(t) : t[i] = ch
    THEN CHOOSE i \in 1..Len(t) : t[i] = ch /\ \A j \in 1..(i - 1) : t[j] # ch
    ELSE 0

\* str.rfind("}")
RFind(t, ch) ==
    IF \E i \in 1..Len(t) : t[i] = ch
    THEN CHOOSE i \in 1..Len(t) : t[i] = ch /\ \A j \in (i + 1)..Len(t) : t[j] # ch
    ELSE 0

GetLlmJsonResponse_NoFallback(t) ==
    LET direct == JsonLoads(t) IN
    IF direct.ok THEN [status |-> "ok", val |-> direct.v]
    ELSE [status |-> "raised", val |-> NoneV]

\* _get_llm_json_response / _extract_json: the direct parse, then the text from
\* the first "{" to the last "}", else the parse error is raised.
GetLlmJsonResponse(t) ==
    LET direct == JsonLoads(t) IN
    IF direct.ok THEN [status |-> "ok", val |-> direct.v]
    ELSE LET l == Find(t, "{")
             r == RFind(t, "}")
         IN  IF l # 0 /\ r # 0 /\ r > l
             THEN LET snippet == JsonLoads(SubSeq(t, l, r)) IN
                  IF snippet.ok THEN [status |-> "ok", val |-> snippet.v]
                  ELSE [status |-> "raised", val |-> NoneV]
             ELSE [status |-> "raised", val |-> NoneV]

-----------------------------------------------------------------------------
(* Text built by f-strings and str.join: a sequence of pieces *)

Digits == <<"1", "2", "3", "4", "5", "6", "7", "8", "9">>
\* str(i) for a small natural number
Str(i) == IF i = 0 THEN "0" ELSE Digits[i]

RECURSIVE JoinWith(_, _)
\* sep.join(items), each item a sequence of pieces
JoinWith(sep, items) ==
    IF Len(items) = 0 THEN <<>>
    ELSE IF Len(items) = 1 THEN items[1]
    ELSE items[1] \o <<sep>> \o JoinWith(sep, Tail(items))

RECURSIVE StripLeft(_)
StripLeft(t) == IF Len(t) > 0 /\ t[1] = WS THEN StripLeft(Tail(t)) ELSE t

RECURSIVE StripRight(_)
StripRight(t) ==
    IF Len(t) > 0 /\ t[Len(t)] = WS THEN StripRight(SubSeq(t, 1, Len(t) - 1)) ELSE t

\* str.strip() of a response text
StripText(t) == StripRight(StripLeft(t))

\* str.strip() of the value of a string literal
StripStr(tok) == IF tok = "\" H1 \"" THEN "\"H1\"" ELSE tok

-----------------------------------------------------------------------------
(* _encode_to_data_uri: a file name is a sequence of pieces, "." one of them *)

\* str.lower() on the pieces that file names are made of
Lower(tok) ==
    CASE tok = "PNG" -> "png"
      [] tok = "Jpeg" -> "jpeg"
      [] tok = "WEBP" -> "webp"
      [] OTHER -> tok

LowerText(t) == [i \in 1..Len(t) |-> Lower(t[i])]

\* Path.suffix: the name from its last "." on, when that dot is neither the
\* first nor the last character of the name
Suffix(name) ==
    LET i == RFind(name, ".") IN
    IF i > 1 /\ i < Len(name) THEN SubSeq(name, i, Len(name)) ELSE <<>>

\* str.replace(".", "")
RemoveDots(t) == SelectSeq(t, LAMBDA x : x # ".")

Ext_CaseSensitive(name) == RemoveDots(Suffix(name))

\* ext = image_path.suffix.lower().replace(".", "")
Ext(name) == RemoveDots(LowerText(Suffix(name)))

\* the if/elif chain over ext
MimeOf(ext) ==
    IF ext \in {<<"jpg">>, <<"jpeg">>} THEN "image/jpeg"
    ELSE IF ext \in {<<"png">>} THEN "image/png"
    ELSE IF ext \in {<<"webp">>} THEN "image/webp"
    ELSE "application/octet-stream"

B64Chars ==
    <<"A", "B", "C", "D", "E", "F", "G", "H", "I", "J", "K", "L", "M", "N", "O", "P",
      "Q", "R", "S", "T", "U", "V", "W", "X", "Y", "Z", "a", "b", "c", "d", "e", "f",
      "g", "h", "i", "j", "k", "l", "m", "n", "o", "p", "q", "r", "s", "t", "u", "v",
      "w", "x", "y", "z", "0", "1", "2", "3", "4", "5", "6", "7", "8", "9", "+", "/">>

B64Char(n) == B64Chars[n + 1]

RECURSIVE B64Encode(_)
\* base64.b64encode(...).decode("utf-8"): three bytes to four characters, the
\* last group padded with "="
B64Encode(bs) ==
    IF Len(bs) = 0 THEN <<>>
    ELSE IF Len(bs) = 1
    THEN <<B64Char(bs[1] \div 4), B64Char((bs[1] % 4) * 16), "=", "=">>
    ELSE IF Len(bs) = 2
    THEN <<B64Char(bs[1] \div 4), B64Char((bs[1] % 4) * 16 + bs[2] \div 16),
           B64Char((bs[2] % 16) * 4), "=">>
    ELSE <<B64Char(bs[1] \div 4), B64Char((bs[1] % 4) * 16 + bs[2] \div 16),
           B64Char((bs[2] % 16) * 4 + bs[3] \div 64), B64Char(bs[3] % 64)>>
         \o B64Encode(SubSeq(bs, 4, Len(bs)))

\* f"data:{mime};base64,{b64}"
EncodeToDataUri(name, bs) ==
    <<"data:", MimeOf(Ext(name)), ";base64,">> \o B64Encode(bs)

-----------------------------------------------------------------------------
(* Bullet normalisation and rendering *)

RequiredBullets == 3

BlankItem ==
    ObjV(<<kHeading, kBenefit, kFeature, kProof>>,
         <<ScalarV(pHeading), ScalarV(pBenefit), ScalarV(pFeature), ScalarV(pProof)>>)

RECURSIVE PadBullets(_)
\* while len(bullets) < 3: bullets.append(_blank_item())
PadBullets(items) ==
    IF Len(items) < RequiredBullets THEN PadBullets(Append(items, BlankItem)) ELSE items

NormalizeBullets_KeepLast(items) ==
    LET padded == PadBullets(items)
    IN  SubSeq(padded, Len(padded) - RequiredBullets + 1, Len(padded))

\* the padding loop, then bullets[:3]
NormalizeBullets(items) == SubSeq(PadBullets(items), 1, RequiredBullets)

\* The exception that bullets_data.get("bullets", []), len(bullets),
\* bullets.append and bullets[:3] raise, "" when they raise none.  A string
\* value is short of append, or sliced into characters that have no get.
NormalizeError(d) ==
    IF d.k # "obj" THEN "AttributeError"
    ELSE LET b == DictGet(d, kBullets, ArrV(<<>>)) IN
         CASE b.k = "arr" -> ""
           [] b.k = "str" -> "AttributeError"
           [] b.k = "obj" -> IF Len(b.n) < RequiredBullets THEN "AttributeError"
                             ELSE "TypeError"
           [] OTHER -> "TypeError"

EmptyStr == ScalarV("\"\"")

\* item.get(key, '') has a strip method
FieldOk(item, key) == DictGet(item, key, EmptyStr).k = "str"

\* item.get(key, '').strip()
Field(item, key) == StripStr(DictGet(item, key, EmptyStr).a)

ItemOk(item) == item.k = "obj" /\ \A key \in BulletKeys : FieldOk(item, key)

\* the flat block of one item
TextBlock(item) ==
    <<Field(item, kHeading), "\n\nCustomer Benefit: ", Field(item, kBenefit),
      "\nKey Feature: ", Field(item, kFeature),
      "\nProof / Differentiator: ", Field(item, kProof)>>

\* the lines of one item in bullets.txt, numbered from 1
ItemLines(item, num, n) ==
    << <<Str(num), ". ", Field(item, kHeading)>>,
       <<"Customer Benefit: ", Field(item, kBenefit)>>,
       <<"Key Feature: ", Field(item, kFeature)>>,
       <<"Proof / Differentiator: ", Field(item, kProof)>> >>
    \o (IF num < n THEN << <<>> >> ELSE <<>>)

FlatBullets_Reversed(items) ==
    [i \in 1..Len(items) |-> TextBlock(items[Len(items) + 1 - i])]

FlatBullets(items) == [i \in 1..Len(items) |-> TextBlock(items[i])]

RECURSIVE BulletLinesFrom(_, _)
BulletLinesFrom(items, num) ==
    IF num > Len(items) THEN <<>>
    ELSE ItemLines(items[num], num, Len(items)) \o BulletLinesFrom(items, num + 1)

BulletLines(items) == BulletLinesFrom(items, 1)

\* the exception the rendering loop raises, "" when it raises none
RenderError(items) ==
    IF \A i \in 1..Len(items) : ItemOk(items[i]) THEN "" ELSE "AttributeError"

-----------------------------------------------------------------------------
(* Module rendering *)

\* str(value) inside an f-string
Fmt(v) ==
    CASE v.k \in {"str", "num"} -> v.a
      [] v.k = "null" -> "None"
      [] OTHER -> "<composite>"

ModuleOk(m) == m.k = "obj" /\ \A key \in ModuleKeys : HasKey(m, key)

StringifyModule(m) ==
    <<Fmt(DictGet(m, kType, NoneV)), ": \"", Fmt(DictGet(m, kTitle, NoneV)),
      "\"\n\nVisual Concept:\n", Fmt(DictGet(m, kVisual, NoneV)),
      "\n\nHeadline:\n\"", Fmt(DictGet(m, kHeadline, NoneV)),
      "\"\n\nSubtext:\n", Fmt(DictGet(m, kSubtext, NoneV))>>

\* what "for module in modules" iterates over: the elements of a list; the
\* keys of a dict and the characters of a string (as one stand-in each)
IterModules(mv) ==
    CASE mv.k = "arr" -> mv.c
      [] mv.k = "obj" -> [i \in 1..Len(mv.n) |-> EmptyStr]
      [] mv.k = "str" -> IF mv.a = "\"\"" THEN <<>> ELSE <<EmptyStr>>
      [] OTHER -> <<>>

\* The exception that modules_data.get("modules", []), the loop and
\* stringify_module raise, "" when they raise none.
ModulesError(d) ==
    IF d.k # "obj" THEN "AttributeError"
    ELSE LET mv == DictGet(d, kModules, ArrV(<<>>))
             its == IterModules(mv)
         IN  IF mv.k \in {"num", "null"} THEN "TypeError"
             ELSE IF \A i \in 1..Len(its) : ModuleOk(its[i]) THEN ""
             ELSE LET i == CHOOSE i \in 1..Len(its) :
                               /\ ~ModuleOk(its[i])
                               /\ \A j \in 1..(i - 1) : ModuleOk(its[j])
                  IN  IF its[i].k = "obj" THEN "KeyError" ELSE "TypeError"

TextModules_DropLast(d) ==
    LET its == IterModules(DictGet(d, kModules, ArrV(<<>>)))
    IN  [i \in 1..(IF Len(its) > 0 THEN Len(its) - 1 ELSE 0) |-> StringifyModule(its[i])]

TextModules(d) ==
    LET its == IterModules(DictGet(d, kModules, ArrV(<<>>)))
    IN  [i \in 1..Len(its) |-> StringifyModule(its[i])]

\* "\n".join(text_modules) + "\n"
ModulesFileText(blocks) == JoinWith("\n", blocks) \o <<"\n">>

\* _build_image_prompt
BuildImagePrompt(instruction) ==
    <<"image_system_message", "\n\nInstructions:\n">> \o instruction
    \o <<"\n\nPlacement guidelines: ...">>

-----------------------------------------------------------------------------
(* Image compositor *)

TARGET_W == 970
TARGET_H == 600
GEN_W == 1536
GEN_H == 1024
SquareSide == 1024

Raster(w, h) == [w |-> w, h |-> h, ok |-> TRUE]
Undecodable == [w |-> 0, h |-> 0, ok |-> FALSE]
\* what the image service may hand back as one image
ServiceRasters == {Raster(GEN_W, GEN_H), Raster(SquareSide, SquareSide), Undecodable}

Resize_KeepSource(img, w, h) == img

\* Image.resize((w, h), Image.LANCZOS)
Resize(img, w, h) == Raster(w, h)

-----------------------------------------------------------------------------
(* The responses the text service may give *)

MaxBullets == 4
MaxModules == 5

Headings == <<"\"H1\"", "\"H2\"", "\"H3\"", "\"H4\"", "\"H5\"", "\"H6\"">>

BulletItemText(h) ==
    <<"{", kHeading, h, ",", kBenefit, "\"B\"", ",", kFeature, "\"F\"", ",",
      kProof, "\"P\"", "}">>

GoodBulletTexts(n) == [i \in 1..n |-> BulletItemText(Headings[i])]

BulletsDoc(itemTexts) ==
    <<"{", kBullets, "[">> \o JoinWith(",", itemTexts) \o <<"]", "}">>

ModuleItemText(t) ==
    <<"{", kType, "\"ty\"", ",", kTitle, t, ",", kVisual, "\"vc\"", ",",
      kHeadline, "\"hl\"", ",", kSubtext, "\"st\"", "}">>

GoodModuleTexts(n) == [i \in 1..n |-> ModuleItemText(Headings[i])]

ModulesDoc(itemTexts) ==
    <<"{", kModules, "[">> \o JoinWith(",", itemTexts) \o <<"]", "}">>

\* responses that are no JSON even after brace extraction
UnparseableTexts ==
    { <<"Sure", "done.">>, <<"Sure", "{", "done.", "}">>, <<"}", "Sure", "{">>, <<>> }

\* valid JSON that is no object
NonObjectTexts == { <<"[", "]">>, <<"1">> }

BulletResponses ==
    {BulletsDoc(GoodBulletTexts(n)) : n \in 0..MaxBullets}
    \cup {<<"Sure", WS>> \o BulletsDoc(GoodBulletTexts(2)) \o <<WS, "done.">>}
    \cup UnparseableTexts
    \cup NonObjectTexts
    \cup { <<"{", "}">>,
           <<"{", kBullets, "\"H1\"", "}">>,
           <<"{", kBullets, "null", "}">>,
           <<"{", kBullets, "{", "}", "}">>,
           BulletsDoc(<<BulletItemText("\"H1\""), <<"1">>, BulletItemText("\"H3\"")>>),
           BulletsDoc(<< <<"{", kHeading, "1", "}">> >>),
           BulletsDoc(<< <<"{", "}">>, <<"{", kHeading, "\" H1 \"", "}">> >>) }

ModuleResponses ==
    {ModulesDoc(GoodModuleTexts(n)) : n \in 0..MaxModules}
    \cup {<<WS, "Sure", WS>> \o ModulesDoc(GoodModuleTexts(2)) \o <<WS, "done.", WS>>}
    \cup UnparseableTexts
    \cup NonObjectTexts
    \cup { <<"{", "}">>,
           <<"{", kModules, "\"\"", "}">>,
           <<"{", kModules, "\"H1\"", "}">>,
           <<"{", kModules, "null", "}">>,
           <<"{", kModules, "{", "}", "}">>,
           ModulesDoc(<<ModuleItemText("\"H1\""), <<"1">>>>),
           ModulesDoc(<<ModuleItemText("\"H1\""),
                        <<"{", kType, "\"ty\"", ",", kTitle, "\"H2\"", "}">>>>),
           ModulesDoc(<< <<"{", kType, "1", ",", kTitle, "null", ",", kVisual, "\"vc\"",
                           ",", kHeadline, "\"hl\"", ",", kSubtext, "\"st\"", "}">> >>) }

-----------------------------------------------------------------------------
(* Inputs *)

PathStates == {"exists", "missing", "absent"}

MainArgs ==
    [product : PathStates, logo : PathStates, title : {"given", "absent"},
     title_path : {"absent", "missing", "nonempty", "empty"},
     instruction : {"absent"}, api_key : {"absent"}]

BulletsPyArgs ==
    [product : PathStates, logo : PathStates, title : {"given", "absent"},
     title_path : {"absent"}, instruction : {"absent"}, api_key : {"absent"}]

FileName(stem) == <<stem>>
IndexedName(stem, i, ext) == <<stem, Str(i), ext>>
TmpName(i) == IndexedName("_tmp_generated_", i, ".png")
ImageName(i) == IndexedName("image_", i, ".png")

\* the file system after writing content under name
WriteFile(fs, name, content) ==
    [n \in DOMAIN fs \cup {name} |-> IF n = name THEN content ELSE fs[n]]

\* Path.unlink
Unlink(fs, name) == [n \in DOMAIN fs \ {name} |-> fs[n]]

NoFiles == [n \in {} |-> <<>>]

Info(msg) == [level |-> "info", msg |-> msg]
Warning(msg) == [level |-> "warning", msg |-> msg]

Call(stage, i, prompt) == [stage |-> stage, idx |-> i, prompt |-> prompt]

EmptyBulletsData == ObjV(<<kBullets>>, <<ArrV(<<>>)>>)
EmptyModulesData == ObjV(<<kModules>>, <<ArrV(<<>>)>>)

BulletsData_NoFallback(t) == GetLlmJsonResponse(t).val

\* try: bullets_data = _get_llm_json_response(raw_text)
\* except Exception: bullets_data = {"bullets": []}
BulletsData(t) ==
    LET parsed == GetLlmJsonResponse(t) IN
    IF parsed.status = "ok" THEN parsed.val ELSE EmptyBulletsData

\* try: modules_data = _get_llm_json_response(module_content)
\* except Exception: modules_data = {"modules": []}
ModulesData(t) ==
    LET parsed == GetLlmJsonResponse(t) IN
    IF parsed.status = "ok" THEN parsed.val ELSE EmptyModulesData

-----------------------------------------------------------------------------
(* main.py and bullets.py *)

Abort_Retry(kind) ==
    /\ pc' = pc
    /\ err' = kind

Abort(kind) ==
    /\ pc' = "aborted"
    /\ err' = kind

Crash(kind) ==
    /\ pc' = "crashed"
    /\ err' = kind

\* the click options of main.py: paths given must exist, the product image is
\* required
ClickMain ==
    /\ UNCHANGED <<bananaVars, parserVars, encoderVars>>
    /\ prog = "main" /\ pc = "cli"
    /\ IF /\ args.product = "exists"
          /\ args.logo \in {"exists", "absent"}
          /\ args.title_path # "missing"
       THEN pc' = "setup" /\ err' = err
       ELSE Abort("UsageError")
    /\ UNCHANGED <<prog, args, title, outdir_made, calls, files, log, raw_text, data,
                   bullets, bullets_txt, module_content, mdata, text_modules, idx, gen>>

\* the click options of bullets.py: the title is required too
ClickBullets ==
    /\ UNCHANGED <<bananaVars, parserVars, encoderVars>>
    /\ prog = "bullets" /\ pc = "cli"
    /\ IF /\ args.product = "exists"
          /\ args.logo \in {"exists", "absent"}
          /\ args.title = "given"
       THEN pc' = "setup" /\ err' = err
       ELSE Abort("UsageError")
    /\ UNCHANGED <<prog, args, title, outdir_made, calls, files, log, raw_text, data,
                   bullets, bullets_txt, module_content, mdata, text_modules, idx, gen>>

\* main.py: the title, the output directory, the data URIs, the client
MainSetup ==
    /\ UNCHANGED <<bananaVars, parserVars, encoderVars>>
    /\ prog = "main" /\ pc = "setup"
    /\ IF args.title = "absent" /\ args.title_path = "absent"
       THEN /\ Abort("UsageError")
            /\ UNCHANGED <<title, outdir_made, log>>
       ELSE /\ title' = IF args.title = "given" THEN "T"
                        ELSE IF args.title_path = "nonempty" THEN "T from file" ELSE ""
            /\ log' = Append(log, Info("Title"))
            /\ outdir_made' = TRUE
            /\ pc' = "bullets_request"
            /\ err' = err
    /\ UNCHANGED <<prog, args, calls, files, raw_text, data, bullets, bullets_txt,
                   module_content, mdata, text_modules, idx, gen>>

\* bullets.py: the output directory, the data URIs, the instruction, the client
BulletsSetup ==
    /\ UNCHANGED <<bananaVars, parserVars, encoderVars>>
    /\ prog = "bullets" /\ pc = "setup"
    /\ title' = "T"
    /\ outdir_made' = TRUE
    /\ pc' = "bullets_request"
    /\ UNCHANGED <<prog, err, args, calls, files, log, raw_text, data, bullets,
                   bullets_txt, module_content, mdata, text_modules, idx, gen>>

\* _get_bullet_llm_prompt
BulletPrompt ==
    <<"bullet_instruction", title, "product_uri">>
    \o (IF args.logo = "exists" THEN <<"logo_uri">> ELSE <<>>)

\* client.responses.create and the parse of its output_text, with the
\* fallback to {"bullets": []}
BulletsRequest ==
    /\ UNCHANGED <<bananaVars, parserVars, encoderVars>>
    /\ pc = "bullets_request"
    /\ calls' = Append(calls, Call("bullets", 0, BulletPrompt))
    /\ \/ /\ Abort("ServiceError")
          /\ log' = IF prog = "main" THEN Append(log, Info("Generating the bullets"))
                    ELSE log
          /\ UNCHANGED <<raw_text, data>>
       \/ \E t \in BulletResponses :
            /\ raw_text' = t
            /\ data' = BulletsData(t)
            /\ log' = IF prog = "main"
                      THEN log \o <<Info("Generating the bullets"),
                                    Info("Tokens for bullets")>>
                      ELSE log
            /\ pc' = "bullets_normalize"
            /\ err' = err
    /\ UNCHANGED <<prog, args, title, outdir_made, files, bullets, bullets_txt,
                   module_content, mdata, text_modules, idx, gen>>

\* bullets = data.get("bullets", []), padded and cut to three
BulletsNormalize ==
    /\ UNCHANGED <<bananaVars, parserVars, encoderVars>>
    /\ pc = "bullets_normalize"
    /\ IF NormalizeError(data) # ""
       THEN Crash(NormalizeError(data)) /\ UNCHANGED bullets
       ELSE /\ bullets' = NormalizeBullets(DictGet(data, kBullets, ArrV(<<>>)).c)
            /\ pc' = "bullets_write"
            /\ err' = err
    /\ UNCHANGED <<prog, args, title, outdir_made, calls, files, log, raw_text, data,
                   bullets_txt, module_content, mdata, text_modules, idx, gen>>

\* the two renderings, written to bullets.txt and bullets.json
BulletsWrite ==
    /\ UNCHANGED <<bananaVars, parserVars, encoderVars>>
    /\ pc = "bullets_write"
    /\ IF RenderError(bullets) # ""
       THEN Crash(RenderError(bullets)) /\ UNCHANGED <<files, bullets_txt, log>>
       ELSE /\ bullets_txt' = JoinWith("\n", BulletLines(bullets))
            /\ files' = WriteFile(WriteFile(files, FileName("bullets.txt"),
                                            JoinWith("\n", BulletLines(bullets))),
                                  FileName("bullets.json"),
                                  [bullets |-> FlatBullets(bullets)])
            /\ log' = log \o (IF prog = "main"
                              THEN <<Info("Bullets Saved"), Info("generating module")>>
                              ELSE <<Info("bullets"), Info("Saved")>>)
            /\ pc' = IF prog = "main" THEN "modules_request" ELSE "done"
            /\ err' = err
    /\ UNCHANGED <<prog, args, title, outdir_made, calls, raw_text, data, bullets,
                   module_content, mdata, text_modules, idx, gen>>

\* _get_module_llm_prompt
ModulePrompt ==
    <<"module_system_prompt", "module_user_prompt", title>> \o bullets_txt
    \o <<"product_uri">> \o (IF args.logo = "exists" THEN <<"logo_uri">> ELSE <<>>)

ModulesRequest_BeforeWrite ==
    /\ UNCHANGED <<bananaVars, parserVars, encoderVars>>
    /\ pc \in {"modules_request", "bullets_write"}
    /\ calls' = Append(calls, Call("modules", 0, ModulePrompt))
    /\ \/ /\ Abort("ServiceError")
          /\ UNCHANGED <<module_content, mdata, log>>
       \/ \E t \in ModuleResponses :
            /\ module_content' = StripText(t)
            /\ mdata' = ModulesData(StripText(t))
            /\ log' = Append(log, Info("Tokens for modules"))
            /\ pc' = "modules_stringify"
            /\ err' = err
    /\ UNCHANGED <<prog, args, title, outdir_made, files, raw_text, data, bullets,
                   bullets_txt, text_modules, idx, gen>>

\* client.chat.completions.create and the parse of the stripped content, with
\* the fallback to {"modules": []}
ModulesRequest ==
    /\ UNCHANGED <<bananaVars, parserVars, encoderVars>>
    /\ pc = "modules_request"
    /\ calls' = Append(calls, Call("modules", 0, ModulePrompt))
    /\ \/ /\ Abort("ServiceError")
          /\ UNCHANGED <<module_content, mdata, log>>
       \/ \E t \in ModuleResponses :
            /\ module_content' = StripText(t)
            /\ mdata' = ModulesData(StripText(t))
            /\ log' = Append(log, Info("Tokens for modules"))
            /\ pc' = "modules_stringify"
            /\ err' = err
    /\ UNCHANGED <<prog, args, title, outdir_made, files, raw_text, data, bullets,
                   bullets_txt, text_modules, idx, gen>>

\* modules = modules_data.get("modules", []) and the stringify loop
ModulesStringify ==
    /\ UNCHANGED <<bananaVars, parserVars, encoderVars>>
    /\ pc = "modules_stringify"
    /\ IF ModulesError(mdata) # ""
       THEN Crash(ModulesError(mdata)) /\ UNCHANGED text_modules
       ELSE /\ text_modules' = TextModules(mdata)
            /\ pc' = "modules_write"
            /\ err' = err
    /\ UNCHANGED <<prog, args, title, outdir_made, calls, files, log, raw_text, data,
                   bullets, bullets_txt, module_content, mdata, idx, gen>>

\* modules.txt, and the head of the image loop
ModulesWrite ==
    /\ UNCHANGED <<bananaVars, parserVars, encoderVars>>
    /\ pc = "modules_write"
    /\ files' = WriteFile(files, FileName("modules.txt"), ModulesFileText(text_modules))
    /\ log' = log \o <<Info("Modules written"), Info("Generating image")>>
    /\ idx' = 0
    /\ pc' = IF Len(text_modules) > 0 THEN "image_request" ELSE "finish"
    /\ UNCHANGED <<prog, err, args, title, outdir_made, calls, raw_text, data,
                   bullets, bullets_txt, module_content, mdata, text_modules, gen>>

ImageRequest_FirstBlock ==
    /\ UNCHANGED <<bananaVars, parserVars, encoderVars>>
    /\ pc = "image_request"
    /\ log' = Append(log, Info("Generating base image"))
    /\ IF args.logo = "absent"
       THEN /\ Crash("TypeError")
            /\ UNCHANGED <<calls, gen>>
       ELSE /\ calls' = Append(calls, Call("images", idx,
                                           BuildImagePrompt(text_modules[1])))
            /\ \/ Abort("ServiceError") /\ UNCHANGED gen
               \/ /\ gen' \in {<<>>} \cup {<<r>> : r \in ServiceRasters}
                  /\ pc' = "image_save_tmp"
                  /\ err' = err
    /\ UNCHANGED <<prog, args, title, outdir_made, files, raw_text, data, bullets,
                   bullets_txt, module_content, mdata, text_modules, idx>>

\* generate_image: the canvas and client.images.edit for text_modules[idx]
ImageRequest ==
    /\ UNCHANGED <<bananaVars, parserVars, encoderVars>>
    /\ pc = "image_request"
    /\ log' = Append(log, Info("Generating base image"))
    /\ IF args.logo = "absent"
       THEN \* os.path.basename(None)
            /\ Crash("TypeError")
            /\ UNCHANGED <<calls, gen>>
       ELSE /\ calls' = Append(calls, Call("images", idx,
                                           BuildImagePrompt(text_modules[idx + 1])))
            /\ \/ Abort("ServiceError") /\ UNCHANGED gen
               \/ /\ gen' \in {<<>>} \cup {<<r>> : r \in ServiceRasters}
                  /\ pc' = "image_save_tmp"
                  /\ err' = err
    /\ UNCHANGED <<prog, args, title, outdir_made, files, raw_text, data, bullets,
                   bullets_txt, module_content, mdata, text_modules, idx>>

\* result.data[0].b64_json saved as _tmp_generated_<idx>.png
ImageSaveTmp ==
    /\ UNCHANGED <<bananaVars, parserVars, encoderVars>>
    /\ pc = "image_save_tmp"
    /\ IF Len(gen) = 0
       THEN Crash("IndexError") /\ UNCHANGED files
       ELSE /\ files' = WriteFile(files, TmpName(idx), gen[1])
            /\ pc' = "image_resize"
            /\ err' = err
    /\ UNCHANGED <<prog, args, title, outdir_made, calls, log, raw_text, data, bullets,
                   bullets_txt, module_content, mdata, text_modules, idx, gen>>

ImageResize_NoPersist ==
    /\ UNCHANGED <<bananaVars, parserVars, encoderVars>>
    /\ pc = "image_resize"
    /\ IF ~files[TmpName(idx)].ok
       THEN Crash("UnidentifiedImageError") /\ UNCHANGED files
       ELSE /\ files' = files
            /\ pc' = "image_unlink"
            /\ err' = err
    /\ UNCHANGED <<prog, args, title, outdir_made, calls, log, raw_text, data, bullets,
                   bullets_txt, module_content, mdata, text_modules, idx, gen>>

\* the temporary file opened, resized and saved as image_<idx>.png
ImageResize ==
    /\ UNCHANGED <<bananaVars, parserVars, encoderVars>>
    /\ pc = "image_resize"
    /\ IF ~files[TmpName(idx)].ok
       THEN Crash("UnidentifiedImageError") /\ UNCHANGED files
       ELSE /\ files' = WriteFile(files, ImageName(idx),
                                  Resize(files[TmpName(idx)], TARGET_W, TARGET_H))
            /\ pc' = "image_unlink"
            /\ err' = err
    /\ UNCHANGED <<prog, args, title, outdir_made, calls, log, raw_text, data, bullets,
                   bullets_txt, module_content, mdata, text_modules, idx, gen>>

\* the temporary file removed, and the step of the image loop
ImageUnlink ==
    /\ UNCHANGED <<bananaVars, parserVars, encoderVars>>
    /\ pc = "image_unlink"
    /\ log' = Append(log, Info("Saved final image"))
    /\ files' = Unlink(files, TmpName(idx))
    /\ idx' = idx + 1
    /\ pc' = IF idx + 1 < Len(text_modules) THEN "image_request" ELSE "finish"
    /\ UNCHANGED <<prog, err, args, title, outdir_made, calls, raw_text, data, bullets,
                   bullets_txt, module_content, mdata, text_modules, gen>>

\* the runtime line that ends main()
Finish ==
    /\ UNCHANGED <<bananaVars, parserVars, encoderVars>>
    /\ pc = "finish"
    /\ log' = Append(log, Info("Runtime"))
    /\ pc' = "done"
    /\ UNCHANGED <<prog, err, args, title, outdir_made, calls, files, raw_text, data,
                   bullets, bullets_txt, module_content, mdata, text_modules, idx, gen>>

(* banana.py *)

MaxParts == 2
MaxClock == 2

RECURSIVE SeqsUpTo(_, _)
\* the sequences over S of length at most n
SeqsUpTo(S, n) ==
    IF n = 0 THEN {<<>>}
    ELSE LET shorter == SeqsUpTo(S, n - 1) IN
         shorter \cup {Append(s, c) : s \in {x \in shorter : Len(x) = n - 1}, c \in S}

ImagePart(r) == [kind |-> "image", img |-> r]
TextPart == [kind |-> "text", img |-> Undecodable]
ResponseParts == {ImagePart(r) : r \in ServiceRasters} \cup {TextPart}

BananaArgs ==
    [product : PathStates, logo : PathStates, title : {"absent"},
     title_path : {"absent"},
     instruction : {"absent", "missing", "nonempty", "empty"}, api_key : {"absent"}]

ResultName(ts) == IndexedName("gemini_result_", ts, ".png")

\* the click options of banana.py: three required paths that must exist
ClickBanana ==
    /\ prog = "banana" /\ pc = "cli"
    /\ IF /\ args.product = "exists"
          /\ args.logo = "exists"
          /\ args.instruction \in {"nonempty", "empty"}
       THEN pc' = "banana_check" /\ err' = err
       ELSE Abort("UsageError")
    /\ UNCHANGED <<prog, args, outdir_made, calls, files, log, mainVars, bananaVars,
                   parserVars, encoderVars>>

\* generate_image up to the client: the two images exist, the instruction
\* file exists and is not empty
BananaCheck ==
    /\ prog = "banana" /\ pc = "banana_check"
    /\ IF args.product # "exists" \/ args.logo # "exists"
          \/ args.instruction \notin {"nonempty", "empty"}
       THEN Abort("FileNotFoundError")
       ELSE IF args.instruction = "empty"
       THEN Abort("ValueError")
       ELSE pc' = "banana_generate" /\ err' = err
    /\ UNCHANGED <<prog, args, outdir_made, calls, files, log, mainVars, bananaVars,
                   parserVars, encoderVars>>

\* client.models.generate_content
BananaGenerate ==
    /\ prog = "banana" /\ pc = "banana_generate"
    /\ calls' = Append(calls, Call("images", 0, BuildImagePrompt(<<"instruction_text">>)))
    /\ \/ Abort("ServiceError") /\ UNCHANGED <<parts, part_i, image_paths>>
       \/ /\ parts' \in SeqsUpTo(ResponseParts, MaxParts)
          /\ part_i' = 1
          /\ image_paths' = <<>>
          /\ pc' = "banana_parts"
          /\ err' = err
    /\ UNCHANGED <<prog, args, outdir_made, files, log, mainVars, now,
                   parserVars, encoderVars>>

\* one pass of the loop over the parts: save_inline_image for an image part,
\* a note for a text part
BananaPart ==
    /\ prog = "banana" /\ pc = "banana_parts" /\ part_i <= Len(parts)
    /\ IF parts[part_i].kind = "image"
       THEN IF ~parts[part_i].img.ok
            THEN /\ Crash("UnidentifiedImageError")
                 /\ outdir_made' = TRUE
                 /\ UNCHANGED <<files, image_paths, now, part_i, log>>
            ELSE \E ts \in {now, now + 1} :
                 /\ ts <= MaxClock
                 /\ now' = ts
                 /\ outdir_made' = TRUE
                 /\ files' = WriteFile(files, ResultName(ts),
                                       Resize(parts[part_i].img, TARGET_W, TARGET_H))
                 /\ image_paths' = Append(image_paths, ResultName(ts))
                 /\ part_i' = part_i + 1
                 /\ UNCHANGED <<pc, err, log>>
       ELSE /\ log' = Append(log, Info("Model note"))
            /\ part_i' = part_i + 1
            /\ UNCHANGED <<pc, err, outdir_made, files, image_paths, now>>
    /\ UNCHANGED <<prog, args, calls, parts, mainVars, parserVars, encoderVars>>

\* the report after the loop, and the runtime line of main()
BananaReport ==
    /\ prog = "banana" /\ pc = "banana_parts" /\ part_i > Len(parts)
    /\ log' = log \o (IF Len(image_paths) = 0
                      THEN <<Warning("No images returned")>>
                      ELSE <<Info("Generated image(s)")>>)
                  \o <<Info("Runtime")>>
    /\ pc' = "done"
    /\ UNCHANGED <<prog, err, args, outdir_made, calls, files, mainVars, bananaVars,
                   parserVars, encoderVars>>

-----------------------------------------------------------------------------
(* image.py *)

ImagePyArgs ==
    [product : {"absent"}, logo : {"absent"}, title : {"absent"},
     title_path : {"absent"},
     instruction : {"absent", "missing", "nonempty", "empty"},
     api_key : {"set", "absent"}]

\* argparse and the API key
ImagePyParse ==
    /\ prog = "image" /\ pc = "cli"
    /\ IF args.instruction = "absent" THEN Abort("UsageError")
       ELSE IF args.api_key = "absent" THEN Abort("SystemExit")
       ELSE pc' = "imagepy_setup" /\ err' = err
    /\ UNCHANGED <<prog, args, outdir_made, calls, files, log, mainVars, bananaVars,
                   parserVars, encoderVars>>

\* the instruction read, the run folder made, prompt.txt written
ImagePySetup ==
    /\ prog = "image" /\ pc = "imagepy_setup"
    /\ IF args.instruction = "missing"
       THEN Abort("FileNotFoundError") /\ UNCHANGED <<outdir_made, files>>
       ELSE /\ outdir_made' = TRUE
            /\ files' = WriteFile(files, FileName("prompt.txt"), <<"prompt">>)
            /\ pc' = "imagepy_generate"
            /\ err' = err
    /\ UNCHANGED <<prog, args, calls, log, mainVars, bananaVars, parserVars, encoderVars>>

\* client.images.generate
ImagePyGenerate ==
    /\ prog = "image" /\ pc = "imagepy_generate"
    /\ calls' = Append(calls, Call("images", 0, <<"prompt">>))
    /\ log' = Append(log, Info("Generating base image"))
    /\ \/ Abort("ServiceError") /\ UNCHANGED gen
       \/ /\ gen' \in {<<>>} \cup {<<r>> : r \in ServiceRasters}
          /\ pc' = "imagepy_save_raw"
          /\ err' = err
    /\ UNCHANGED <<prog, args, outdir_made, files, title, raw_text, data, bullets,
                   bullets_txt, module_content, mdata, text_modules, idx, bananaVars,
                   parserVars, encoderVars>>

\* result.data[0].b64_json saved as ai_output_1536x1024.png
ImagePySaveRaw ==
    /\ prog = "image" /\ pc = "imagepy_save_raw"
    /\ IF Len(gen) = 0
       THEN Crash("IndexError") /\ UNCHANGED files
       ELSE /\ files' = WriteFile(files, FileName("ai_output_1536x1024.png"), gen[1])
            /\ pc' = "imagepy_resize"
            /\ err' = err
    /\ UNCHANGED <<prog, args, outdir_made, calls, log, mainVars, bananaVars,
                   parserVars, encoderVars>>

\* the raw file opened, converted, resized and saved as final_output_970x600.png
ImagePyResize ==
    /\ prog = "image" /\ pc = "imagepy_resize"
    /\ IF ~files[FileName("ai_output_1536x1024.png")].ok
       THEN Crash("UnidentifiedImageError") /\ UNCHANGED <<files, log>>
       ELSE /\ files' = WriteFile(files, FileName("final_output_970x600.png"),
                                  Resize(files[FileName("ai_output_1536x1024.png")],
                                         TARGET_W, TARGET_H))
            /\ log' = log \o <<Info("Result artifacts stored"), Info("Runtime")>>
            /\ pc' = "done"
            /\ err' = err
    /\ UNCHANGED <<prog, args, outdir_made, calls, mainVars, bananaVars,
                   parserVars, encoderVars>>

-----------------------------------------------------------------------------
(* The scripts from their command lines *)

PipelineIdle ==
    /\ pc = "cli"
    /\ err = ""
    /\ title = ""
    /\ outdir_made = FALSE
    /\ calls = <<>>
    /\ files = NoFiles
    /\ log = <<>>
    /\ raw_text = <<>>
    /\ data = NoneV
    /\ bullets = <<>>
    /\ bullets_txt = <<>>
    /\ module_content = <<>>
    /\ mdata = NoneV
    /\ text_modules = <<>>
    /\ idx = 0
    /\ gen = <<>>
    /\ parts = <<>>
    /\ part_i = 1
    /\ image_paths = <<>>
    /\ now = 1

EncoderIdle ==
    /\ image_path = <<>>
    /\ image_bytes = <<>>
    /\ uri = <<>>

ArgsOf(p) ==
    CASE p = "main" -> MainArgs
      [] p = "bullets" -> BulletsPyArgs
      [] p = "banana" -> BananaArgs
      [] p = "image" -> ImagePyArgs

Programs == {"main", "bullets", "banana", "image"}

Init ==
    /\ prog \in Programs
    /\ args \in ArgsOf(prog)
    /\ PipelineIdle
    /\ text = <<>>
    /\ result = [status |-> "none", val |-> NoneV]
    /\ EncoderIdle

Next ==
    \/ ClickMain
    \/ ClickBullets
    \/ MainSetup
    \/ BulletsSetup
    \/ BulletsRequest
    \/ BulletsNormalize
    \/ BulletsWrite
    \/ ModulesRequest
    \/ ModulesStringify
    \/ ModulesWrite
    \/ ImageRequest
    \/ ImageSaveTmp
    \/ ImageResize
    \/ ImageUnlink
    \/ Finish
    \/ ClickBanana
    \/ BananaCheck
    \/ BananaGenerate
    \/ BananaPart
    \/ BananaReport
    \/ ImagePyParse
    \/ ImagePySetup
    \/ ImagePyGenerate
    \/ ImagePySaveRaw
    \/ ImagePyResize

Spec == Init /\ [][Next]_vars

\* Each script is one thread of straight-line code and every service call is
\* a blocking round trip: a run that can take a step takes it.
FairSpec == Init /\ [][Next]_vars /\ WF_vars(Next)

-----------------------------------------------------------------------------
(* The parser on every short text *)

MaxTextLen == 4
ParseAlphabet == {"{", "}", "[", "]", ",", kOther, "1", "Sure", WS}

TextsUpTo(n) == SeqsUpTo(ParseAlphabet, n)

NotCalled == [status |-> "none", val |-> NoneV]

NoArgs ==
    [product |-> "absent", logo |-> "absent", title |-> "absent",
     title_path |-> "absent", instruction |-> "absent", api_key |-> "absent"]

ParseInit ==
    /\ prog = "parser"
    /\ args = NoArgs
    /\ PipelineIdle
    /\ text \in TextsUpTo(MaxTextLen)
    /\ result = NotCalled
    /\ EncoderIdle

ParseCall ==
    /\ result.status = "none"
    /\ prog = "parser"
    /\ result' = GetLlmJsonResponse(text)
    /\ UNCHANGED <<prog, pc, err, args, outdir_made, calls, files, log, mainVars,
                   bananaVars, text, encoderVars>>

ParseNext == ParseCall

SpecParse == ParseInit /\ [][ParseNext]_vars

-----------------------------------------------------------------------------
(* The asset encoder on every short file name *)

MaxNameLen == 3
MaxBytes == 3
NamePieces == {".", "a", "jpg", "Jpeg", "png", "PNG", "webp", "WEBP", "gif"}
ByteValues == {77, 255}

EncodeInit ==
    /\ prog = "encoder"
    /\ args = NoArgs
    /\ PipelineIdle
    /\ text = <<>>
    /\ result = NotCalled
    /\ image_path \in SeqsUpTo(NamePieces, MaxNameLen) \ {<<>>}
    /\ image_bytes \in SeqsUpTo(ByteValues, MaxBytes)
    /\ uri = <<>>

EncodeCall ==
    /\ prog = "encoder"
    /\ uri = <<>>
    /\ uri' = EncodeToDataUri(image_path, image_bytes)
    /\ UNCHANGED <<prog, pc, err, args, outdir_made, calls, files, log, mainVars,
                   bananaVars, parserVars, image_path, image_bytes>>

EncodeNext == EncodeCall

SpecEncode == EncodeInit /\ [][EncodeNext]_vars

-----------------------------------------------------------------------------
(* modules.py *)

\* what a path option of modules.py may name: an image file, a file that
\* mimetypes does not take for an image, no file, or the option is not given
AssetStates == {"exists", "not_image", "missing", "absent"}

\* bullets_json: a file with {"bullets": [non-empty strings]}, or one that
\* load_bullets refuses, or no file, or the option is not given
BulletsJsonStates == {"ok", "bad_items", "no_bullets_key", "invalid_json", "missing", "absent"}

ModulesPyArgs ==
    [product : AssetStates, logo : AssetStates, title : {"given", "absent"},
     description : {"given", "absent"}, bullets_json : BulletsJsonStates]

\* --out, at its default, and the file of the refused output next to it
OutName == FileName("modules.txt")
RawName == <<"modules.txt", ".raw.txt">>

\* what a file left by an earlier run holds
Old == <<"old">>

\* the output directory before the run
FilesBefore ==
    { NoFiles, WriteFile(NoFiles, OutName, Old), WriteFile(NoFiles, RawName, Old),
      WriteFile(WriteFile(NoFiles, OutName, Old), RawName, Old) }

\* message.content of the first choice; <<>> stands for None and for ""
ModulesPyResponses ==
    { <<>>,
      <<WS>>,
      <<"Module 1", " - Hero", "\n\n", "Module 2", " - Story">>,
      <<WS, "Module 1", " - Hero", WS>>,
      <<"Module 1", "0">>,
      <<"Sure", WS, "Module 1", " - Hero">>,
      <<"module 1", " - Hero">>,
      <<"Module 2", " - Story">>,
      <<"{", kModules, "[", "]", "}">> }

FormatOk_AnyCase(content) ==
    Len(content) > 0 /\ content[1] \in {"Module 1", "module 1"}

\* content.startswith("Module 1"), "Module 1" being one piece
FormatOk(content) == Len(content) > 0 /\ content[1] = "Module 1"

ModulesPyPrompt ==
    <<"SYSTEM_PROMPT", "FIXED_USER_PROMPT", "CONSTRAINTS_BRIDGE", "inputs_block",
      "product_data_url", "logo_data_url">>

ModulesPyInit ==
    /\ prog = "modules"
    /\ args \in ModulesPyArgs
    /\ files \in FilesBefore
    /\ pc = "cli"
    /\ err = ""
    /\ title = ""
    /\ outdir_made = FALSE
    /\ calls = <<>>
    /\ log = <<>>
    /\ raw_text = <<>>
    /\ data = NoneV
    /\ bullets = <<>>
    /\ bullets_txt = <<>>
    /\ module_content = <<>>
    /\ mdata = NoneV
    /\ text_modules = <<>>
    /\ idx = 0
    /\ gen = <<>>
    /\ parts = <<>>
    /\ part_i = 1
    /\ image_paths = <<>>
    /\ now = 1
    /\ text = <<>>
    /\ result = NotCalled
    /\ EncoderIdle

\* the click options of modules.py: five required options
ClickModules ==
    /\ prog = "modules" /\ pc = "cli"
    /\ IF \/ args.product = "absent" \/ args.logo = "absent"
          \/ args.title = "absent" \/ args.description = "absent"
          \/ args.bullets_json = "absent"
       THEN Abort("UsageError")
       ELSE pc' = "modulespy_load" /\ err' = err
    /\ UNCHANGED <<prog, args, outdir_made, calls, files, log, mainVars, bananaVars,
                   parserVars, encoderVars>>

\* load_bullets, then img_to_data_url for the product image and for the logo
ModulesPyLoad ==
    /\ prog = "modules" /\ pc = "modulespy_load"
    /\ IF \/ args.bullets_json # "ok"
          \/ args.product # "exists"
          \/ args.logo # "exists"
       THEN Abort("UsageError")
       ELSE pc' = "modulespy_request" /\ err' = err
    /\ UNCHANGED <<prog, args, outdir_made, calls, files, log, mainVars, bananaVars,
                   parserVars, encoderVars>>

\* client.chat.completions.create, and the content stripped
ModulesPyRequest ==
    /\ prog = "modules" /\ pc = "modulespy_request"
    /\ calls' = Append(calls, Call("modules", 0, ModulesPyPrompt))
    /\ \/ Abort("ServiceError") /\ UNCHANGED module_content
       \/ \E t \in ModulesPyResponses :
            /\ module_content' = StripText(t)
            /\ pc' = "modulespy_write"
            /\ err' = err
    /\ UNCHANGED <<prog, args, title, outdir_made, files, log, raw_text, data, bullets,
                   bullets_txt, mdata, text_modules, idx, gen, bananaVars, parserVars,
                   encoderVars>>

\* the format check: the refused content to <out>.raw.txt and a usage error,
\* or the content and a newline to <out>
ModulesPyWrite ==
    /\ prog = "modules" /\ pc = "modulespy_write"
    /\ IF ~FormatOk(module_content)
       THEN /\ files' = WriteFile(files, RawName, module_content)
            /\ Abort("UsageError")
            /\ UNCHANGED log
       ELSE /\ files' = WriteFile(files, OutName, module_content \o <<"\n">>)
            /\ log' = Append(log, Info("Modules written"))
            /\ pc' = "done"
            /\ err' = err
    /\ UNCHANGED <<prog, args, outdir_made, calls, mainVars, bananaVars, parserVars,
                   encoderVars>>

ModulesPyNext ==
    \/ ClickModules
    \/ ModulesPyLoad
    \/ ModulesPyRequest
    \/ ModulesPyWrite

SpecModules == ModulesPyInit /\ [][ModulesPyNext]_vars

-----------------------------------------------------------------------------
(* Properties *)

Pipeline == prog \in {"main", "bullets"}
HasFile(name) == name \in DOMAIN files
Terminal == pc \in {"done", "aborted", "crashed"}
StageRank(c) ==
    CASE c.stage = "bullets" -> 1
      [] c.stage = "modules" -> 2
      [] c.stage = "images" -> 3
CallsOf(stage) == {i \in 1..Len(calls) : calls[i].stage = stage}

\* the bullets response has come back
BulletsReceived ==
    /\ Pipeline
    /\ Len(calls) >= 1
    /\ ~(pc = "aborted" /\ Len(calls) = 1)

\* the modules response has come back
ModulesReceived ==
    /\ prog = "main"
    /\ Len(calls) >= 2
    /\ ~(pc = "aborted" /\ Len(calls) = 2)

\* lines 288-299 have run to their end
BulletsNormalized ==
    /\ BulletsReceived
    /\ pc # "bullets_normalize"
    /\ NormalizeError(data) = ""

\* C1: in main.py the modules request is issued only once the bullets stage
\* has normalised its three items and written bullets.txt and bullets.json, an
\* image request only once modules.txt is written, and the requests never go
\* back to an earlier stage: one bullets request, one modules request.
C1_StagesInOrder ==
    prog = "main" =>
        /\ \A i \in CallsOf("modules") :
              /\ Len(bullets) = RequiredBullets
              /\ HasFile(FileName("bullets.txt"))
              /\ HasFile(FileName("bullets.json"))
        /\ \A i \in CallsOf("images") :
              /\ HasFile(FileName("modules.txt"))
              /\ Len(text_modules) > calls[i].idx
        /\ \A i, j \in 1..Len(calls) :
              i < j => StageRank(calls[i]) <= StageRank(calls[j])
        /\ Cardinality(CallsOf("bullets")) <= 1
        /\ Cardinality(CallsOf("modules")) <= 1
        /\ (pc \in {"bullets_normalize", "bullets_write"} => Len(calls) = 1)
        /\ (pc \in {"modules_stringify", "modules_write"} => Len(calls) = 2)

C1_Witness ==
    /\ prog = "main" /\ pc = "done"
    /\ Len(calls) = 4
    /\ calls[1].stage = "bullets" /\ calls[2].stage = "modules"
    /\ calls[4].stage = "images"

\* the list the bullets response held
ParsedBullets == DictGet(data, kBullets, ArrV(<<>>)).c

\* C2: after normalisation the bullet list has exactly 3 items: position j
\* holds the j-th parsed item while there is one, and the canonical
\* placeholder after the parsed items have run out; items beyond the third
\* are dropped.
C2_NormalizedToThree ==
    BulletsNormalized =>
        /\ Len(bullets) = 3
        /\ \A j \in 1..3 :
              bullets[j] = IF j <= Len(ParsedBullets) THEN ParsedBullets[j]
                           ELSE BlankItem

C2_Witness ==
    /\ BulletsNormalized
    /\ pc = "bullets_write"
    /\ Len(ParsedBullets) = 2
    /\ bullets[1] = ParsedBullets[1] /\ bullets[2] = ParsedBullets[2]
    /\ bullets[3] = BlankItem

\* text[i..j] is a JSON object, written from its "{" to its "}"
EmbeddedObject(t, i, j) ==
    /\ 1 <= i /\ i < j /\ j <= Len(t)
    /\ t[i] = "{" /\ t[j] = "}"
    /\ JsonLoads(SubSeq(t, i, j)).ok

ParserReturned == prog = "parser" /\ result.status # "none"

ValidJsonReturned ==
    JsonLoads(text).ok =>
        result = [status |-> "ok", val |-> JsonLoads(text).v]

BulletsUnparseable ==
    BulletsReceived /\ GetLlmJsonResponse(raw_text).status = "raised"

ThreePlaceholders == <<BlankItem, BlankItem, BlankItem>>

\* C4: an unparseable bullets response does not end the run: the data is the
\* empty collection, the stage pads it to three placeholders and writes
\* bullets.txt and bullets.json with them, and main.py issues the modules
\* request next.
C4_UnparseableBulletsRecovered ==
    BulletsUnparseable =>
        /\ data = EmptyBulletsData
        /\ (pc # "bullets_normalize" => bullets = ThreePlaceholders)
        /\ (pc \notin {"bullets_normalize", "bullets_write"} =>
              /\ HasFile(FileName("bullets.txt"))
              /\ HasFile(FileName("bullets.json"))
              /\ files[FileName("bullets.txt")] =
                    JoinWith("\n", BulletLines(ThreePlaceholders))
              /\ files[FileName("bullets.json")] =
                    [bullets |-> FlatBullets(ThreePlaceholders)])
        /\ (Terminal /\ prog = "main" =>
              Len(calls) >= 2 /\ calls[2].stage = "modules")
        /\ (Terminal /\ prog = "bullets" => pc = "done")

C4_Witness ==
    /\ BulletsUnparseable
    /\ prog = "main"
    /\ raw_text = <<"Sure", "{", "done.", "}">>
    /\ pc = "modules_stringify"
    /\ HasFile(FileName("bullets.json"))

NoBraces(t) == \A i \in 1..Len(t) : t[i] \notin {"{", "}"}

\* the modules response is plain text: no JSON and no brace in it
PlainTextModules ==
    /\ ModulesReceived
    /\ Len(module_content) > 0
    /\ NoBraces(module_content)
    /\ ~JsonLoads(module_content).ok

\* C5: after a plain-text modules response without braces the module list is
\* empty, no image request is issued, the run ends normally, modules.txt is
\* an empty file and a warning has been printed.
C5_PlainTextModules ==
    PlainTextModules =>
        /\ pc \notin {"crashed", "aborted"}
        /\ text_modules = <<>>
        /\ CallsOf("images") = {}
        /\ (pc = "done" =>
              /\ HasFile(FileName("modules.txt"))
              /\ files[FileName("modules.txt")] = <<>>
              /\ \E i \in 1..Len(log) : log[i].level = "warning")

\* the image call for the current index gave no image
ZeroImagesReturned ==
    /\ prog = "main"
    /\ pc \in {"image_save_tmp", "crashed"}
    /\ Len(calls) > 0
    /\ calls[Len(calls)].stage = "images"
    /\ calls[Len(calls)].idx = idx
    /\ gen = <<>>

\* C6: a zero-image result for an index does not end the run.
C6_ZeroImagesSkipped ==
    ZeroImagesReturned => pc # "crashed"

RequiredModules == 5

\* the blocks have been handed to the image loop
HandedToImages ==
    /\ prog = "main"
    /\ HasFile(FileName("modules.txt"))

\* the indices of the image requests issued so far, in order
ImageIndices == [i \in 1..Cardinality(CallsOf("images")) |-> calls[2 + i].idx]

\* C7 as stated: the image loop always gets exactly five blocks and a run
\* that completes has asked for the indices 0..4.
C7_AlwaysFiveBlocks ==
    HandedToImages =>
        /\ Len(text_modules) = RequiredModules
        /\ (pc = "done" => ImageIndices = [i \in 1..RequiredModules |-> i - 1])

\* what the loop over the parsed modules value goes through
ParsedModules == IterModules(DictGet(mdata, kModules, ArrV(<<>>)))

\* C7: the image loop gets one block per module of the parsed response, the
\* image requests are for the indices 0, 1, 2, ... below that count, each
\* once and in this order, and a run that completes has asked for all.
C7_OneBlockPerParsedModule ==
    HandedToImages =>
        /\ Len(text_modules) = Len(ParsedModules)
        /\ Len(ImageIndices) <= Len(text_modules)
        /\ ImageIndices = [i \in 1..Len(ImageIndices) |-> i - 1]
        /\ (pc = "done" => Len(ImageIndices) = Len(text_modules))

C7_Witness ==
    /\ HandedToImages
    /\ pc = "done"
    /\ Len(text_modules) = 2
    /\ ImageIndices = <<0, 1>>

\* C8: nothing but an input error or a service error ends main.py before its
\* modules stage has finished, whatever the text service answered.
C8_TextResponsesNeverHalt ==
    (prog = "main" /\ pc = "crashed") => HasFile(FileName("modules.txt"))

\* a required input is missing, or the file it names does not exist
InputMissing ==
    \/ /\ prog = "main"
       /\ \/ args.product # "exists"
          \/ args.logo # "exists"
          \/ (args.title = "absent" /\ args.title_path \in {"absent", "missing"})
    \/ /\ prog = "banana"
       /\ \/ args.product # "exists"
          \/ args.logo # "exists"
          \/ args.instruction # "nonempty"

\* C9: with a required input missing no service call is made and nothing is
\* written.
C9_MissingInputAbortsFirst ==
    InputMissing =>
        /\ calls = <<>>
        /\ files = NoFiles

FinalImageStems == {"image_", "gemini_result_", "final_output_970x600.png"}

\* C10: every file under a final image name is 970 wide and 600 high.
C10_FinalImagesAtTarget ==
    \A name \in DOMAIN files :
        name[1] \in FinalImageStems =>
            files[name].w = 970 /\ files[name].h = 600

C10_Witness ==
    /\ prog = "main"
    /\ pc = "image_unlink"
    /\ gen = <<Raster(SquareSide, SquareSide)>>
    /\ HasFile(ImageName(idx))
    /\ files[ImageName(idx)] = Raster(970, 600)

RECURSIVE LinesOfFrom(_, _, _)
\* the segments of a text that end in a newline, in order
LinesOfFrom(t, i, cur) ==
    IF i > Len(t) THEN (IF cur = <<>> THEN <<>> ELSE <<cur>>)
    ELSE IF t[i] = "\n" THEN <<cur>> \o LinesOfFrom(t, i + 1, <<>>)
    ELSE LinesOfFrom(t, i + 1, Append(cur, t[i]))

\* the entries of modules.txt as it stands on disk
ModulesFileBlocks == LinesOfFrom(files[FileName("modules.txt")], 1, <<>>)

\* what a prompt carries between its fixed head and its fixed tail
PromptInstruction(p) == SubSeq(p, 3, Len(p) - 1)

\* C11: the image request for index i carries entry i (counted from 0) of
\* modules.txt and nothing else between the fixed parts of its prompt, and a
\* file image_<i>.png or _tmp_generated_<i>.png exists only for an index i
\* that was requested under that same number.
C11_ImageFromOwnBlock ==
    prog = "main" =>
        /\ \A c \in CallsOf("images") :
              /\ HasFile(FileName("modules.txt"))
              /\ calls[c].idx + 1 <= Len(ModulesFileBlocks)
              /\ PromptInstruction(calls[c].prompt) = ModulesFileBlocks[calls[c].idx + 1]
              /\ calls[c].prompt = BuildImagePrompt(text_modules[calls[c].idx + 1])
        /\ \A name \in DOMAIN files :
              name[1] \in {"image_", "_tmp_generated_"} =>
                  \E c \in CallsOf("images") : name[2] = Str(calls[c].idx)
        /\ (CallsOf("images") # {} => calls[3].idx = 0)

C11_Witness ==
    /\ prog = "main"
    /\ pc = "done"
    /\ Len(text_modules) = 3
    /\ text_modules[1] # text_modules[2]
    /\ HasFile(ImageName(1))
    /\ PromptInstruction(calls[4].prompt) = text_modules[2]

\* the pieces from the start of one item of bullets.txt to the start of the
\* next: its four lines, the empty line and the newlines that join them
ItemStride == Len(JoinWith("\n", ItemLines(BlankItem, 1, 2))) + 1
\* piece number off of item j in the text of bullets.txt
TxtPiece(j, off) == files[FileName("bullets.txt")][ItemStride * (j - 1) + off]
\* piece number off of string j in bullets.json
JsonPiece(j, off) == files[FileName("bullets.json")].bullets[j][off]

\* C12: bullets.txt and bullets.json both hold three items, item j of
\* bullets.txt is numbered j, and its heading, customer benefit, key feature
\* and proof are those of string j of bullets.json and of the j-th
\* normalised bullet.
C12_RenderingsAgree ==
    (Pipeline /\ HasFile(FileName("bullets.txt")) /\ HasFile(FileName("bullets.json"))) =>
              /\ Len(files[FileName("bullets.json")].bullets) = RequiredBullets
              /\ Len(files[FileName("bullets.txt")]) = ItemStride * RequiredBullets - 2
              /\ \A j \in 1..RequiredBullets :
                    /\ TxtPiece(j, 1) = Str(j)
                    /\ TxtPiece(j, 3) = JsonPiece(j, 1)
                    /\ TxtPiece(j, 6) = JsonPiece(j, 3)
                    /\ TxtPiece(j, 9) = JsonPiece(j, 5)
                    /\ TxtPiece(j, 12) = JsonPiece(j, 7)
                    /\ TxtPiece(j, 3) = Field(bullets[j], kHeading)
                    /\ TxtPiece(j, 6) = Field(bullets[j], kBenefit)
                    /\ TxtPiece(j, 9) = Field(bullets[j], kFeature)
                    /\ TxtPiece(j, 12) = Field(bullets[j], kProof)

C12_Witness ==
    /\ Pipeline
    /\ HasFile(FileName("bullets.txt"))
    /\ HasFile(FileName("bullets.json"))
    /\ TxtPiece(1, 3) = "\"H1\"" /\ JsonPiece(1, 1) = "\"H1\""
    /\ TxtPiece(2, 3) = "\"H2\"" /\ JsonPiece(2, 1) = "\"H2\""
    /\ TxtPiece(3, 3) = pHeading /\ JsonPiece(3, 1) = pHeading

\* the modules response is no JSON, even from its first "{" to its last "}"
ModulesUnparseable ==
    ModulesReceived /\ GetLlmJsonResponse(module_content).status = "raised"

WarningCount == Cardinality({i \in 1..Len(log) : log[i].level = "warning"})

\* the except clauses taken so far
FallbacksTaken ==
    (IF BulletsUnparseable THEN 1 ELSE 0) + (IF ModulesUnparseable THEN 1 ELSE 0)

\* banana.py has gone through a response without an image part
BananaSkipped == prog = "banana" /\ pc = "done" /\ image_paths = <<>>

\* C13: once a fallback has replaced an unparseable bullets or modules
\* response, or a response without images has been passed over, the output
\* holds a warning for it: at least one warning line per fallback taken, and
\* one for the skip.
C13_FallbacksWarned ==
    /\ Pipeline => WarningCount >= FallbacksTaken
    /\ BananaSkipped => WarningCount >= 1

\* main.py is at the head of its image loop with both images at hand
ImagesEntered ==
    prog = "main" /\ pc = "image_request" /\ idx = 0 /\ args.logo = "exists"

AllIndicesAttempted == prog = "main" /\ Len(ImageIndices) = Len(text_modules)

\* C14: from the head of the image loop the run comes to its end with an
\* image request issued for every module index, unless a service call
\* reports an error, also when a generation gives no image or a raster that
\* cannot be decoded.
C14_ImagesStageCompletes ==
    ImagesEntered ~> (pc = "aborted" \/ (pc = "done" /\ AllIndicesAttempted))

\* the name ends in a dot and one piece that, lower-cased, is in S, and has
\* something before that dot
EndsWithExt(name, S) ==
    /\ Len(name) >= 3
    /\ name[Len(name) - 1] = "."
    /\ Lower(name[Len(name)]) \in S

\* the media type the contract gives the name
ContractMime(name) ==
    IF EndsWithExt(name, {"jpg", "jpeg"}) THEN "image/jpeg"
    ELSE IF EndsWithExt(name, {"png"}) THEN "image/png"
    ELSE IF EndsWithExt(name, {"webp"}) THEN "image/webp"
    ELSE "application/octet-stream"

B64Index(c) == CHOOSE n \in 0..63 : B64Chars[n + 1] = c

RECURSIVE B64Decode(_)
\* the bytes that a base64 text stands for
B64Decode(cs) ==
    IF Len(cs) < 4 THEN <<>>
    ELSE LET b1 == B64Index(cs[1]) * 4 + B64Index(cs[2]) \div 16 IN
         IF cs[3] = "=" THEN <<b1>>
         ELSE LET b2 == (B64Index(cs[2]) % 16) * 16 + B64Index(cs[3]) \div 4 IN
              IF cs[4] = "=" THEN <<b1, b2>>
              ELSE <<b1, b2, (B64Index(cs[3]) % 4) * 64 + B64Index(cs[4])>>
                   \o B64Decode(SubSeq(cs, 5, Len(cs)))

EncoderReturned == prog = "encoder" /\ uri # <<>>

\* C15: the encoder returns "data:", the media type, ";base64," and the
\* base64 text of the file's bytes, where the media type is image/jpeg for an
\* extension jpg or jpeg, image/png for png, image/webp for webp, in any
\* letter case, and application/octet-stream for every other name.
C15_EncoderMediaType ==
    EncoderReturned =>
        /\ Len(uri) >= 3
        /\ uri[1] = "data:"
        /\ uri[2] = ContractMime(image_path)
        /\ uri[3] = ";base64,"
        /\ B64Decode(SubSeq(uri, 4, Len(uri))) = image_bytes

C15_Witness ==
    /\ EncoderReturned
    /\ image_path = <<"a", ".", "PNG">>
    /\ image_bytes = <<255, 77, 255>>
    /\ uri = <<"data:", "image/png", ";base64,", "/", "0", "3", "/">>

\* the image calls of main.py, as positions in the call history
ImageCalls == IF prog = "main" THEN CallsOf("images") ELSE {}

\* C16: the image requests of a run carry the indices 0, 1, 2, ... in this
\* order, none twice; when the request for an index is issued, every lower
\* index has its image_<j>.png at 970x600 and its temporary file removed,
\* and while a request waits to be issued every lower index has been
\* requested.
C16_OneImageAtATime ==
    /\ \A c, d \in ImageCalls :
          c < d => calls[c].idx + (d - c) = calls[d].idx
    /\ \A c \in ImageCalls :
          \A j \in 0..(calls[c].idx - 1) :
              /\ HasFile(ImageName(j))
              /\ files[ImageName(j)] = Raster(TARGET_W, TARGET_H)
              /\ ~HasFile(TmpName(j))
    /\ (prog = "main" /\ pc = "image_request") => Cardinality(ImageCalls) = idx
    /\ (prog = "main" /\ pc \in {"image_save_tmp", "image_resize", "image_unlink"}) =>
          /\ Cardinality(ImageCalls) = idx + 1
          /\ calls[Len(calls)].idx = idx

C16_Witness ==
    /\ prog = "main"
    /\ pc = "image_save_tmp"
    /\ idx = 2
    /\ Cardinality(ImageCalls) = 3
    /\ HasFile(ImageName(0)) /\ HasFile(ImageName(1))
    /\ ~HasFile(ImageName(2))

\* a service call has reported failure
ServiceFailed == pc = "aborted" /\ err = "ServiceError"

\* C17: a run issues the bullets request and the modules request at most
\* once each and the image request of an index at most once; after a service
\* call reported failure the run has ended with that error, the failed call
\* is the last one issued and nothing of its stage or of a later one has
\* been written.
C17_NoRetry ==
    /\ Cardinality(CallsOf("bullets")) <= 1
    /\ Cardinality(CallsOf("modules")) <= 1
    /\ \A c, d \in CallsOf("images") : c # d => calls[c].idx # calls[d].idx
    /\ err = "ServiceError" => pc = "aborted" /\ Len(calls) >= 1
    /\ (ServiceFailed /\ Pipeline) =>
          LET last == calls[Len(calls)] IN
          /\ last.stage = "bullets" => files = NoFiles
          /\ last.stage = "modules" => ~HasFile(FileName("modules.txt"))
          /\ last.stage = "images" =>
                /\ last.idx = idx
                /\ \A name \in DOMAIN files :
                      name[1] \in {"image_", "_tmp_generated_"} =>
                          \E j \in 0..(idx - 1) : name[2] = Str(j)

C17_Witness ==
    /\ ServiceFailed
    /\ prog = "main"
    /\ Len(calls) = 4
    /\ calls[4].idx = 1
    /\ HasFile(ImageName(0))
    /\ ~HasFile(ImageName(1))

\* C18: a file _tmp_generated_<i>.png is in the output directory only while
\* the image step of index i is between saving it and removing it: once the
\* step has ended, with the image saved or with an error, it is gone.
C18_TmpDiscarded ==
    prog = "main" =>
        \A name \in DOMAIN files :
            name[1] = "_tmp_generated_" =>
                /\ pc \in {"image_resize", "image_unlink"}
                /\ name = TmpName(idx)

\* the files that save_inline_image has written
ResultFiles == {name \in DOMAIN files : name[1] = "gemini_result_"}

\* C19: the paths that save_inline_image returned in one run of banana.py
\* are pairwise distinct and there are as many result files as paths.
C19_DistinctResultPaths ==
    prog = "banana" =>
        /\ \A i, j \in 1..Len(image_paths) :
              i # j => image_paths[i] # image_paths[j]
        /\ Cardinality(ResultFiles) = Len(image_paths)

\* the content does start with "Module 1"
StartsWithModule1(t) == Len(t) >= 1 /\ Head(t) = "Module 1"

\* the run has put something into the file
Written(name) == HasFile(name) /\ files[name] # Old

\* modules.py has dealt with the content of a completed service call
ContentHandled ==
    /\ prog = "modules"
    /\ Len(calls) = 1
    /\ pc \in {"done", "aborted"}
    /\ err # "ServiceError"

\* C20: modules.py writes nothing before it has the content of a completed
\* service call (the text of the response with the white space around it
\* removed).  A content that does not start with "Module 1" ends the run in
\* a usage error with the content in <out>.raw.txt and <out> as it was; a
\* content that does start with it ends the run normally with the content
\* and a newline in <out> and <out>.raw.txt as it was.
C20_OneOfTwoFiles ==
    prog = "modules" =>
        /\ ~ContentHandled => files \in FilesBefore
        /\ (ContentHandled /\ ~StartsWithModule1(module_content)) =>
              /\ pc = "aborted" /\ err = "UsageError"
              /\ Written(RawName) /\ files[RawName] = module_content
              /\ ~Written(OutName)
        /\ (ContentHandled /\ StartsWithModule1(module_content)) =>
              /\ pc = "done"
              /\ Written(OutName) /\ files[OutName] = Append(module_content, "\n")
              /\ ~Written(RawName)

C20_Witness ==
    /\ ContentHandled
    /\ pc = "aborted"
    /\ module_content = <<"Sure", WS, "Module 1", " - Hero">>
    /\ HasFile(OutName) /\ files[OutName] = Old
    /\ files[RawName] = module_content

====
